---- MODULE Spec2Model ----
(***************************************************************************)
(* winidjango: the three dev-dependency accessors                          *)
(*   winidjango/dev/configs/configs.py  PyprojectConfigFile                *)
(*   winidjango/rig/tools/tools.py      Pyrigger, ProjectTester            *)
(* and the module bootstrap of winidjango/__init__.py.                     *)
(*                                                                         *)
(* Strings that the code compares (dict keys, list elements) are sequences *)
(* of code points, ordered as Python orders str.  A dict is the sequence   *)
(* of its <<key, value>> items in insertion order; a list is a sequence.   *)
(***************************************************************************)
EXTENDS Integers, Sequences, FiniteSets, TLC

VARIABLES
    parentMap,     \* content of the dict the parent get_standard_dev_dependencies() holds
    parentList,    \* content of the list the parent get_dev_dependencies() holds
    parentShares,  \* TRUE: the parent hands out that very dict; FALSE: a fresh copy per call
    call,          \* the last accessor call: who, what the parent did, what the override did
    pc,            \* per execution of the winidjango module body: the statement it is at
    saw,           \* per execution: what `settings.configured` read at line 14
    settings,      \* django.conf.settings (process-wide)
    patchCalls,    \* number of django_stubs_ext.monkeypatch() calls so far
    appsReady      \* django.setup() has populated the app registry

accVars == <<parentMap, parentList, parentShares, call>>
bootVars == <<pc, saw, settings, patchCalls, appsReady>>
vars == <<parentMap, parentList, parentShares, call, pc, saw, settings, patchCalls, appsReady>>

----------------------------------------------------------------------------
(* Bounds *)

MaxEntries == 2     \* entries of the parent's mapping
MaxList == 2        \* elements of the parent's list
MaxExec == 3        \* executions of the module body in one process

----------------------------------------------------------------------------
(* Strings as code points *)

DjangoStubs == <<100, 106, 97, 110, 103, 111, 45, 115, 116, 117, 98, 115>>
PytestDjango == <<112, 121, 116, 101, 115, 116, 45, 100, 106, 97, 110, 103, 111>>
Pytest == <<112, 121, 116, 101, 115, 116>>
Coverage == <<99, 111, 118, 101, 114, 97, 103, 101>>
Ruff == <<114, 117, 102, 102>>

Wildcard == "*"

\* what the parent may hold: names around the two fixed keys in str order
ParentKeys == {Coverage, DjangoStubs, Pytest, PytestDjango, Ruff}
ParentVals == {Wildcard, ">=5.0"}
ParentNames == {Pytest, DjangoStubs, PytestDjango}
Exceptions == {"RuntimeError", "KeyError"}

\* Python's str.__lt__: the first differing code point decides, a proper prefix is smaller
RECURSIVE StrLess(_, _)
StrLess(a, b) ==
    IF b = <<>> THEN FALSE
    ELSE IF a = <<>> THEN TRUE
    ELSE IF a[1] # b[1] THEN a[1] < b[1]
    ELSE StrLess(Tail(a), Tail(b))

----------------------------------------------------------------------------
(* dict and list operations the accessors use *)

Keys(d) == {d[i][1] : i \in 1..Len(d)}

Get(d, k) == d[CHOOSE i \in 1..Len(d) : d[i][1] = k][2]

\* a d.setdefault(k, v) in place of d[k] = v: an existing value is kept
DictSetDefault(d, k, v) ==
    IF k \in {d[i][1] : i \in 1..Len(d)} THEN d ELSE Append(d, <<k, v>>)

\* d[k] = v: an existing key keeps its position, a new key goes last
DictSet(d, k, v) ==
    IF k \in Keys(d)
    THEN [i \in 1..Len(d) |-> IF d[i][1] = k THEN <<k, v>> ELSE d[i]]
    ELSE Append(d, <<k, v>>)

\* tuple comparison of two items: keys of one dict differ, so the key decides
ItemLess(x, y) == StrLess(x[1], y[1])

\* one item into an ascending sequence, after every item not greater (stable)
RECURSIVE InsertItem(_, _)
InsertItem(s, x) ==
    IF s = <<>> THEN <<x>>
    ELSE IF ItemLess(x, s[1]) THEN <<x>> \o s
    ELSE <<s[1]>> \o InsertItem(Tail(s), x)

\* sorted(items)
RECURSIVE Sorted(_)
Sorted(s) ==
    IF s = <<>> THEN <<>>
    ELSE InsertItem(Sorted(SubSeq(s, 1, Len(s) - 1)), s[Len(s)])

\* dict(pairs): later pairs overwrite earlier ones with the same key
RECURSIVE Dict(_)
Dict(s) ==
    IF s = <<>> THEN <<>>
    ELSE DictSet(Dict(SubSeq(s, 1, Len(s) - 1)), s[Len(s)][1], s[Len(s)][2])

----------------------------------------------------------------------------
(* The accessors *)

\* the second assignment (configs.py:17) left out
InsertFixedStubsOnly(d) == DictSet(d, DjangoStubs, Wildcard)

\* configs.py:16-17: the two assignments into the dict obtained from the parent
InsertFixed(d) == DictSet(DictSet(d, DjangoStubs, Wildcard), PytestDjango, Wildcard)

\* the sorted() of configs.py:19 left out
GetStandardUnsorted(d) == Dict(InsertFixed(d))

\* only the two additions returned, the parent's entries lost
GetStandardOnlyFixed(d) == Dict(Sorted(InsertFixed(<<>>)))

\* configs.py:15-19: the dict returned for the parent's dict d
GetStandardDevDependencies(d) == Dict(Sorted(InsertFixed(d)))

\* the literal put first instead of last
PyriggerPrepend(l) == <<DjangoStubs>> \o l

\* tools.py:13
PyriggerGetDevDependencies(l) == l \o <<DjangoStubs>>

\* the literal appended only when the parent does not have it
ProjectTesterDedup(l) ==
    IF \E i \in 1..Len(l) : l[i] = PytestDjango THEN l ELSE l \o <<PytestDjango>>

\* tools.py:22
ProjectTesterGetDevDependencies(l) == l \o <<PytestDjango>>

\* an except clause that re-raises every failure as RuntimeError
PropagateWrapped(pkind, pexc) ==
    [kind |-> pkind, exc |-> IF pkind = "raise" THEN "RuntimeError" ELSE ""]

\* No try/except around super()...: what the parent raises leaves the override as is
Propagate(pkind, pexc) == [kind |-> pkind, exc |-> pexc]

NoCall ==
    [who |-> "none", pkind |-> "return", pexc |-> "", pmap |-> <<>>, plist |-> <<>>,
     kind |-> "return", exc |-> "", mval |-> <<>>, lval |-> <<>>]

ParentOutcomes == {<<"return", "">>} \cup {<<"raise", e>> : e \in Exceptions}

\* PyprojectConfigFile.get_standard_dev_dependencies()
CallGetStandardDevDependencies ==
    \E p \in ParentOutcomes :
        LET out == Propagate(p[1], p[2])
            ret == out.kind = "return"
            got == IF p[1] = "return" THEN parentMap ELSE <<>>
        IN  /\ call' = [who |-> "PyprojectConfigFile", pkind |-> p[1], pexc |-> p[2],
                        pmap |-> got, plist |-> <<>>,
                        kind |-> out.kind, exc |-> out.exc,
                        mval |-> IF ret THEN GetStandardDevDependencies(got) ELSE <<>>,
                        lval |-> <<>>]
            /\ parentMap' = IF p[1] = "return" /\ parentShares
                            THEN InsertFixed(parentMap) ELSE parentMap
            /\ UNCHANGED <<parentList, parentShares>>
            /\ UNCHANGED bootVars

\* Pyrigger.get_dev_dependencies()
CallPyriggerGetDevDependencies ==
    \E p \in ParentOutcomes :
        LET out == Propagate(p[1], p[2])
            ret == out.kind = "return"
            got == IF p[1] = "return" THEN parentList ELSE <<>>
        IN  /\ call' = [who |-> "Pyrigger", pkind |-> p[1], pexc |-> p[2],
                        pmap |-> <<>>, plist |-> got,
                        kind |-> out.kind, exc |-> out.exc,
                        mval |-> <<>>,
                        lval |-> IF ret THEN PyriggerGetDevDependencies(got) ELSE <<>>]
            /\ UNCHANGED <<parentMap, parentList, parentShares>>
            /\ UNCHANGED bootVars

\* ProjectTester.get_dev_dependencies()
CallProjectTesterGetDevDependencies ==
    \E p \in ParentOutcomes :
        LET out == Propagate(p[1], p[2])
            ret == out.kind = "return"
            got == IF p[1] = "return" THEN parentList ELSE <<>>
        IN  /\ call' = [who |-> "ProjectTester", pkind |-> p[1], pexc |-> p[2],
                        pmap |-> <<>>, plist |-> got,
                        kind |-> out.kind, exc |-> out.exc,
                        mval |-> <<>>,
                        lval |-> IF ret THEN ProjectTesterGetDevDependencies(got) ELSE <<>>]
            /\ UNCHANGED <<parentMap, parentList, parentShares>>
            /\ UNCHANGED bootVars

----------------------------------------------------------------------------
(* The module body of winidjango/__init__.py *)

Executions == 1..MaxExec

Unconfigured == [configured |-> FALSE, DATABASES |-> <<>>, INSTALLED_APPS |-> <<>>]

\* the test package not registered
MinimalSettingsNoApps ==
    [configured |-> TRUE,
     DATABASES |-> <<[alias |-> "default", ENGINE |-> "django.db.backends.sqlite3",
                      NAME |-> ":memory:"]>>,
     INSTALLED_APPS |-> <<>>]

\* __init__.py:16-24
MinimalSettings ==
    [configured |-> TRUE,
     DATABASES |-> <<[alias |-> "default", ENGINE |-> "django.db.backends.sqlite3",
                      NAME |-> ":memory:"]>>,
     INSTALLED_APPS |-> <<"tests">>]

\* settings a host application may have configured before the import
HostSettings ==
    { [configured |-> TRUE,
       DATABASES |-> <<[alias |-> "default", ENGINE |-> "django.db.backends.postgresql",
                        NAME |-> "host"]>>,
       INSTALLED_APPS |-> <<"hostapp">>],
      [configured |-> TRUE,
       DATABASES |-> <<>>,
       INSTALLED_APPS |-> <<"hostapp", "tests">>] }

\* the guard of line 14 left out
ShouldConfigureAlways(flag) == TRUE

\* __init__.py:14: the branch is taken when the flag reads False
ShouldConfigure(flag) == ~flag

\* __init__.py:11
Monkeypatch(t) ==
    /\ pc[t] = "monkeypatch"
    /\ patchCalls' = patchCalls + 1
    /\ pc' = [pc EXCEPT ![t] = "check"]
    /\ UNCHANGED <<saw, settings, appsReady>>
    /\ UNCHANGED accVars

\* __init__.py:14
Check(t) ==
    /\ pc[t] = "check"
    /\ saw' = [saw EXCEPT ![t] = IF settings.configured THEN "True" ELSE "False"]
    /\ pc' = [pc EXCEPT ![t] = IF ShouldConfigure(settings.configured)
                               THEN "configure" ELSE "done"]
    /\ UNCHANGED <<settings, patchCalls, appsReady>>
    /\ UNCHANGED accVars

\* __init__.py:16-24; LazySettings.configure raises RuntimeError("Settings already
\* configured.") and changes nothing when the settings are configured
Configure(t) ==
    /\ pc[t] = "configure"
    /\ IF settings.configured
       THEN /\ pc' = [pc EXCEPT ![t] = "raised"]
            /\ UNCHANGED settings
       ELSE /\ settings' = MinimalSettings
            /\ pc' = [pc EXCEPT ![t] = "setup"]
    /\ UNCHANGED <<saw, patchCalls, appsReady>>
    /\ UNCHANGED accVars

\* __init__.py:25
Setup(t) ==
    /\ pc[t] = "setup"
    /\ appsReady' = TRUE
    /\ pc' = [pc EXCEPT ![t] = "done"]
    /\ UNCHANGED <<saw, settings, patchCalls>>
    /\ UNCHANGED accVars

----------------------------------------------------------------------------
(* Specifications *)

\* every dict of at most MaxEntries items over ParentKeys, in any insertion order
ParentMaps ==
    { d \in UNION {[1..n -> ParentKeys \X ParentVals] : n \in 0..MaxEntries} :
        \A i, j \in 1..Len(d) : i # j => d[i][1] # d[j][1] }

ParentLists == UNION {[1..n -> ParentNames] : n \in 0..MaxList}

BootIdle ==
    /\ pc = [t \in Executions |-> "monkeypatch"]
    /\ saw = [t \in Executions |-> "unread"]
    /\ patchCalls = 0

\* the accessors, called in any order on any parent
Init ==
    /\ parentMap \in ParentMaps
    /\ parentList \in ParentLists
    /\ parentShares \in BOOLEAN
    /\ call = NoCall
    /\ BootIdle
    /\ settings = Unconfigured
    /\ appsReady = FALSE

Next ==
    \/ CallGetStandardDevDependencies
    \/ CallPyriggerGetDevDependencies
    \/ CallProjectTesterGetDevDependencies

Spec == Init /\ [][Next]_vars

\* the module body, executed MaxExec times in a process whose host may have configured
InitBoot ==
    /\ parentMap = <<>>
    /\ parentList = <<>>
    /\ parentShares = FALSE
    /\ call = NoCall
    /\ BootIdle
    /\ \/ settings = Unconfigured /\ appsReady = FALSE
       \/ settings \in HostSettings /\ appsReady \in BOOLEAN

NextBoot ==
    \E t \in Executions :
        \/ Monkeypatch(t)
        \/ Check(t)
        \/ Configure(t)
        \/ Setup(t)

SpecBoot == InitBoot /\ [][NextBoot]_vars

----------------------------------------------------------------------------
(* Properties of the accessors, under Spec *)

MappingReturned == call.who = "PyprojectConfigFile" /\ call.kind = "return"

ListReturned(who) == call.who = who /\ call.kind = "return"

FixedKeys == {DjangoStubs, PytestDjango}

Count(l, x) == Cardinality({i \in 1..Len(l) : l[i] = x})

\* C1: whatever mapping the parent returns, the mapping returned by
\* PyprojectConfigFile.get_standard_dev_dependencies() has the keys "django-stubs"
\* and "pytest-django", each mapped to "*", also when the parent had one of them
\* with another value; the parent {"pytest": "*"} gives
\* {"django-stubs": "*", "pytest": "*", "pytest-django": "*"}.
C1_FixedKeysWildcard ==
    MappingReturned =>
        /\ \A k \in FixedKeys :
              /\ \E i \in 1..Len(call.mval) : call.mval[i][1] = k
              /\ \A i \in 1..Len(call.mval) : call.mval[i][1] = k => call.mval[i][2] = "*"
        /\ call.pmap = <<<<Pytest, "*">>>> =>
              call.mval = <<<<DjangoStubs, "*">>, <<Pytest, "*">>, <<PytestDjango, "*">>>>

C1_Witness ==
    /\ MappingReturned
    /\ \E i \in 1..Len(call.pmap) :
          call.pmap[i][1] = PytestDjango /\ call.pmap[i][2] # "*"

\* C2: the items of the returned mapping are in strictly ascending str order of
\* key, so list(keys) == sorted(keys) and no key occurs twice, whatever the order
\* of the parent's items.
C2_KeysAscending ==
    MappingReturned =>
        \A i, j \in 1..Len(call.mval) :
            i < j => StrLess(call.mval[i][1], call.mval[j][1])

C2_Witness ==
    /\ MappingReturned
    /\ Len(call.pmap) = 2
    /\ call.pmap[1][1] = Ruff
    /\ call.pmap[2][1] = Coverage
    /\ call.mval[1][1] = Coverage

\* C3: the returned mapping's key set is the parent's key set united with the two
\* fixed keys, and every key other than the two keeps the parent's value.
C3_ParentEntriesKept ==
    MappingReturned =>
        /\ {call.mval[i][1] : i \in 1..Len(call.mval)}
              = {call.pmap[i][1] : i \in 1..Len(call.pmap)} \cup FixedKeys
        /\ \A i \in 1..Len(call.pmap) :
              call.pmap[i][1] \notin FixedKeys =>
                  \E j \in 1..Len(call.mval) : call.mval[j] = call.pmap[i]

C3_Witness ==
    /\ MappingReturned
    /\ \E i \in 1..Len(call.pmap) :
          call.pmap[i][1] \notin FixedKeys /\ call.pmap[i][2] # "*"

\* C4: for the parent's list L, Pyrigger.get_dev_dependencies() returns L followed
\* by "django-stubs" and ProjectTester.get_dev_dependencies() returns L followed by
\* "pytest-django": length len(L) + 1, the first len(L) elements are L in order,
\* the last element is the literal.
C4_LiteralAppended ==
    /\ ListReturned("Pyrigger") =>
          /\ Len(call.lval) = Len(call.plist) + 1
          /\ \A i \in 1..Len(call.plist) : call.lval[i] = call.plist[i]
          /\ call.lval[Len(call.lval)] = DjangoStubs
    /\ ListReturned("ProjectTester") =>
          /\ Len(call.lval) = Len(call.plist) + 1
          /\ \A i \in 1..Len(call.plist) : call.lval[i] = call.plist[i]
          /\ call.lval[Len(call.lval)] = PytestDjango

C4_Witness ==
    /\ ListReturned("Pyrigger")
    /\ call.plist = <<Pytest>>
    /\ call.lval = <<Pytest, DjangoStubs>>

\* C5: no deduplication: a parent list holding the provider's literal k times
\* gives a result holding it k + 1 times.
C5_NoDeduplication ==
    /\ ListReturned("Pyrigger") =>
          Count(call.lval, DjangoStubs) = Count(call.plist, DjangoStubs) + 1
    /\ ListReturned("ProjectTester") =>
          Count(call.lval, PytestDjango) = Count(call.plist, PytestDjango) + 1

C5_Witness ==
    /\ ListReturned("ProjectTester")
    /\ Count(call.plist, PytestDjango) = 2
    /\ Count(call.lval, PytestDjango) = 3

\* C9: an accessor raises exactly when its parent raised, then with the parent's
\* exception and without a value; when the parent returns, the accessor returns.
C9_ExceptionTransparent ==
    call.who # "none" =>
        /\ call.kind = "raise" <=> call.pkind = "raise"
        /\ call.kind = "raise" =>
              call.exc = call.pexc /\ call.mval = <<>> /\ call.lval = <<>>
        /\ call.kind = "return" => call.exc = ""

C9_Witness ==
    /\ call.who = "PyprojectConfigFile"
    /\ call.pkind = "raise"
    /\ call.pexc = "KeyError"
    /\ call.kind = "raise"

\* C10 as stated: no accessor call changes the content of the object the parent
\* holds, neither its mapping nor its list.
C10_ParentResultUnchanged ==
    [][parentMap' = parentMap /\ parentList' = parentList]_vars

\* C10 amended: the list providers leave the parent's list as it is; a returning
\* call of the mapping provider on a parent that hands out its own dict leaves in
\* that dict the parent's items, in their positions, with "django-stubs" and
\* "pytest-django" set to "*" (added last when absent); every other call leaves
\* the parent's dict as it is.
C10_ParentMapUpserted ==
    [][/\ parentList' = parentList
       /\ IF call'.who = "PyprojectConfigFile" /\ call'.kind = "return" /\ parentShares
          THEN /\ {parentMap'[i][1] : i \in 1..Len(parentMap')}
                     = {parentMap[i][1] : i \in 1..Len(parentMap)} \cup FixedKeys
               /\ Len(parentMap') = Cardinality({parentMap[i][1] : i \in 1..Len(parentMap)}
                                                    \cup FixedKeys)
               /\ \A i \in 1..Len(parentMap) :
                     /\ parentMap'[i][1] = parentMap[i][1]
                     /\ parentMap[i][1] \notin FixedKeys => parentMap'[i] = parentMap[i]
               /\ \A i \in 1..Len(parentMap') :
                     parentMap'[i][1] \in FixedKeys => parentMap'[i][2] = "*"
               /\ DjangoStubs \notin {parentMap[i][1] : i \in 1..Len(parentMap)}
                     /\ PytestDjango \notin {parentMap[i][1] : i \in 1..Len(parentMap)}
                     => parentMap'[Len(parentMap')][1] = PytestDjango
          ELSE parentMap' = parentMap]_vars

C10_Witness ==
    /\ MappingReturned
    /\ parentShares
    /\ parentMap # call.pmap
    /\ call.pmap = <<<<Pytest, "*">>>>
    /\ parentMap = <<<<Pytest, "*">>, <<DjangoStubs, "*">>, <<PytestDjango, "*">>>>

----------------------------------------------------------------------------
(* Properties of the module body, under SpecBoot *)

Configurers == {t \in Executions : saw[t] = "False" /\ pc[t] \in {"setup", "done"}}

\* C6: an execution that finds the settings configured (by the host or by an
\* earlier execution) ends without calling configure and without raising, and
\* configured settings are never changed, so a second execution leaves what the
\* first one left.
C6_BootstrapIdempotent ==
    [][/\ settings.configured => settings' = settings
       /\ \A t \in Executions :
             settings.configured /\ pc[t] \in {"monkeypatch", "check"} =>
                 pc'[t] \in {"monkeypatch", "check", "done"}]_vars

C6_Witness ==
    /\ settings = MinimalSettings
    /\ \E t, u \in Executions :
          /\ pc[t] = "done" /\ saw[t] = "False"
          /\ pc[u] = "done" /\ saw[u] = "True"

\* C7: each execution runs monkeypatch, then the check of the flag, then (flag
\* unset) configure with exactly the in-memory sqlite3 default database and
\* INSTALLED_APPS = ["tests"], then setup; the monkeypatch precedes the check in
\* every execution and the settings are configured when an execution has ended.
C7_StepOrder ==
    /\ [](\A t \in Executions : pc[t] \in {"done", "raised"} => settings.configured)
    /\ [](patchCalls = Cardinality({t \in Executions : pc[t] # "monkeypatch"}))
    /\ [][\A t \in Executions :
            pc'[t] # pc[t] =>
                /\ pc[t] = "monkeypatch" => pc'[t] = "check" /\ patchCalls' = patchCalls + 1
                /\ pc[t] = "check" =>
                      /\ patchCalls' = patchCalls /\ settings' = settings
                      /\ pc'[t] = IF settings.configured THEN "done" ELSE "configure"
                /\ pc[t] = "configure" /\ ~settings.configured =>
                      /\ pc'[t] = "setup"
                      /\ settings'.configured
                      /\ settings'.DATABASES =
                            <<[alias |-> "default", ENGINE |-> "django.db.backends.sqlite3",
                               NAME |-> ":memory:"]>>
                      /\ settings'.INSTALLED_APPS = <<"tests">>
                /\ pc[t] = "setup" => pc'[t] = "done" /\ appsReady'
                /\ pc[t] \notin {"done", "raised"}]_vars

C7_Witness ==
    /\ \E t \in Executions : pc[t] = "done" /\ saw[t] = "False"
    /\ settings = MinimalSettings
    /\ appsReady
    /\ \A t \in Executions : pc[t] \in {"done", "monkeypatch"}

\* C8 as stated: over any interleaving of executions, configure is never called on
\* configured settings, so no execution ends in the redundant-configuration error.
C8_NoRedundantConfigure == \A t \in Executions : pc[t] # "raised"

\* C8 amended: an execution that reads the flag as set never calls configure, and
\* an execution calls configure on configured settings only when it read the flag
\* as unset and another execution, which also read it as unset, configured between
\* that read and the call (the two overlapped between check and configure); it
\* then ends in the redundant-configuration error.
C8_RedundantOnlyOnOverlap ==
    \A t \in Executions :
        /\ pc[t] \in {"configure", "setup", "raised"} => saw[t] = "False"
        /\ saw[t] = "True" => pc[t] = "done"
        /\ (pc[t] = "raised" \/ (pc[t] = "configure" /\ settings.configured)) =>
              \E u \in Executions \ {t} : u \in Configurers

C8_Witness ==
    \E t, u \in Executions :
        /\ t # u
        /\ pc[t] = "raised"
        /\ u \in Configurers
        /\ settings = MinimalSettings

====
